---- MODULE Spec2Model ----
(***************************************************************************)
(* A model of gustafla/rt: the parallel tile renderer of src/main.rs (the  *)
(* chunk queue, the worker loop, the per-worker generator) and the pure    *)
(* functions it calls (quantisation, HitRecord::new, Sphere::hit,          *)
(* World::traverse, ray_color, Dielectric::reflectance).                   *)
(*                                                                         *)
(* Numbers.  f32 values are modelled on fixed grids: colours in            *)
(* thousandths (1.0 = 1000), parametric distances t and coordinates as     *)
(* integers, refractive indices and cosines as exact fractions <<n, d>>.   *)
(***************************************************************************)
EXTENDS Integers, Sequences, FiniteSets, TLC

\* ---------------------------------------------------------------- bounds
MaxWidth == 3
MaxHeight == 2
MaxChunk == 3
MaxTiles == 3
MaxObjects == 2
MaxCoord == 3
MaxComp == 1
MaxChannel == 1200
MaxEta == 3
MaxCallDepth == 4
MaxThreads == 2
SamplesPerPixel == 2

\* ------------------------------------------------------ program constants
COLOR_CHANNELS == 3
SEED == 123
MAX_DEPTH == 8
INFINITY == 1000000

VARIABLES
    \* render configuration (main.rs:338-342, 372, 376), chosen at start
    width, height, chunk_pixels, nthreads,
    \* shared state
    chunks,        \* the Mutex<Vec<(usize, &mut [u8])>>: a sequence of descriptors
    lock,          \* the worker holding the mutex guard, 0 when free
    pixel_data,    \* the byte buffer, indexed from 0
    \* per worker
    pc, tmp, px, rng,
    \* history
    writers,       \* per byte: the workers that wrote it
    nwrites,       \* per byte: the number of writes
    assign,        \* per worker: the tile indices it popped, in order
    \* a call of one of the pure functions: its arguments and its result
    call, ret

vars == <<width, height, chunk_pixels, nthreads, chunks, lock,
          pixel_data, pc, tmp, px, rng, writers, nwrites, assign, call, ret>>

Min(a, b) == IF a < b THEN a ELSE b
Max(a, b) == IF a > b THEN a ELSE b

Workers == 1..nthreads
None == [some |-> FALSE]
Some(v) == [some |-> TRUE, val |-> v]
\* `let x = v; F(x)`: v is computed once and F applied to its value
Bind(v, F(_)) == CHOOSE y \in {F(x) : x \in {v}} : TRUE

\* ------------------------------------------------------------ Vec3, Color
\* glam::Vec3 as a triple; colour channels in thousandths.
Vec3(x, y, z) == <<x, y, z>>
ZERO == Vec3(0, 0, 0)
ONE == Vec3(1000, 1000, 1000)
VAdd(a, b) == [k \in 1..3 |-> a[k] + b[k]]
\* component-wise product of two colours in thousandths (att * colour)
VMul(a, b) == [k \in 1..3 |-> (a[k] * b[k]) \div 1000]
VDivN(a, n) == [k \in 1..3 |-> a[k] \div n]
Dot(a, b) == a[1] * b[1] + a[2] * b[2] + a[3] * b[3]
Neg(a) == [k \in 1..3 |-> 0 - a[k]]
VSub(a, b) == [k \in 1..3 |-> a[k] - b[k]]

\* f32::sqrt on the grid: the largest k with k*k <= n (0 for n <= 0)
RECURSIVE SqrtSearch(_, _, _)
SqrtSearch(n, lo, hi) ==
    IF lo >= hi THEN lo
    ELSE Bind((lo + hi + 1) \div 2, LAMBDA mid :
            IF mid * mid <= n THEN SqrtSearch(n, mid, hi)
            ELSE SqrtSearch(n, lo, mid - 1))
ISqrt(n) == IF n <= 0 THEN 0 ELSE SqrtSearch(n, 0, Min(n, 46340))

\* Color::sqrt: per channel; sqrt(c/1000) = sqrt(1000*c)/1000
Color_sqrt(c) == [k \in 1..3 |-> Bind(1000 * c[k], LAMBDA n : ISqrt(n))]
\* Color::clamp
Color_clamp(c, lo, hi) == [k \in 1..3 |-> Max(lo, Min(hi, c[k]))]
\* Rust's float-to-u8 cast: truncates and saturates
AsU8(v) == IF v < 0 THEN 0 ELSE IF v > 255 THEN 255 ELSE v
\* Vec3 * 256.
ScaleColor_255(c) == [k \in 1..3 |-> (c[k] * 255) \div 1000]
ScaleColor(c) == [k \in 1..3 |-> (c[k] * 256) \div 1000]
\* impl From<Color> for OutputColor
OutputColor_from(color) ==
    Bind(color, LAMBDA c0 :
    Bind(Color_sqrt(c0), LAMBDA c1 :
    Bind(Color_clamp(c1, 0, 999), LAMBDA c2 :
    Bind(ScaleColor(c2), LAMBDA c :
        [k \in 1..3 |-> AsU8(c[k])]))))

\* ----------------------------------------------------------- XorShiftRng
\* The generator is a deterministic state machine; its 128-bit state is
\* modelled by 4 bits, its step by a full-period permutation, and a drawn
\* f32 in [0,1) by the new state in sixteenths.
RngStates == 0..15
seed_from_u64(seed) == seed % 16
NextRng(s) == (5 * s + 3) % 16
Gen(s) == [val |-> NextRng(s), rng |-> NextRng(s)]
\* rng.gen::<[f32; 2]>(), in sixteenths
Gen2(s) ==
    [vec |-> <<NextRng(s), NextRng(NextRng(s))>>, rng |-> NextRng(NextRng(s))]
\* Vec3::from(rng.gen::<[f32; 3]>()) * 2. - Vec3::ONE, in sixteenths
Gen3(s) ==
    [vec |-> Vec3(2 * NextRng(s) - 16, 2 * NextRng(NextRng(s)) - 16,
                  2 * NextRng(NextRng(NextRng(s))) - 16),
     rng |-> NextRng(NextRng(NextRng(s)))]

\* fn random_in_sphere: the rejection loop, len < 1 && len > 0.0001
RECURSIVE random_in_sphere(_)
random_in_sphere(s) ==
    Bind(Gen3(s), LAMBDA g :
        IF Dot(g.vec, g.vec) < 16 * 16 /\ Dot(g.vec, g.vec) > 0 THEN g
        ELSE random_in_sphere(g.rng))

\* ------------------------------------------------------ Ray, HitRecord, Sphere
\* Coordinates and parametric distances are integers; rays have a unit,
\* axis-parallel direction, so a = 1 and the roots are on the grid.
Ray_new(origin, direction) == [origin |-> origin, direction |-> direction]
Ray_at(r, t) == [k \in 1..3 |-> r.origin[k] + t * r.direction[k]]

\* HitRecord::new
HitRecord_new_le(position, outward_normal, t, r) ==
    Bind(Dot(r.direction, outward_normal) <= 0, LAMBDA front_facing :
        [position |-> position,
         normal |-> IF front_facing THEN outward_normal ELSE Neg(outward_normal),
         t |-> t, front_facing |-> front_facing])
HitRecord_new(position, outward_normal, t, r) ==
    Bind(Dot(r.direction, outward_normal) < 0, LAMBDA front_facing :
        [position |-> position,
         normal |-> IF front_facing THEN outward_normal ELSE Neg(outward_normal),
         t |-> t, front_facing |-> front_facing])

\* the test of a root against t_range in Sphere::hit
root_outside(root, t_range) == root < t_range.start \/ t_range.end < root

\* Sphere::hit
Sphere_hit(sp, r, t_range) ==
    Bind(VSub(r.origin, sp.center), LAMBDA oc :
    Bind(Dot(r.direction, r.direction), LAMBDA a :
    Bind(Dot(oc, r.direction), LAMBDA half_b :
    Bind(Dot(oc, oc) - sp.radius * sp.radius, LAMBDA c :
    Bind(half_b * half_b - a * c, LAMBDA discriminant :
        IF discriminant < 0 THEN None
        ELSE Bind(ISqrt(discriminant), LAMBDA sqrtd :
             Bind(((0 - half_b) - sqrtd) \div a, LAMBDA root1 :
             Bind(((0 - half_b) + sqrtd) \div a, LAMBDA root2 :
             Bind(IF root_outside(root1, t_range) THEN root2 ELSE root1, LAMBDA root :
                IF root_outside(root1, t_range) /\ root_outside(root2, t_range) THEN None
                ELSE Bind(Ray_at(r, root), LAMBDA position :
                        Some(HitRecord_new(position, VDivN(VSub(position, sp.center), sp.radius), root, r))))))))))))

\* nearest_t = hit.t
nearest_t_kept(nearest_t, hit) == nearest_t
nearest_t_after(nearest_t, hit) == hit.t

\* World::traverse: the loop over the objects from index k on
RECURSIVE traverse_from(_, _, _, _, _, _)
traverse_from(objects, k, r, t_min, nearest_t, nearest_hit) ==
    IF k > Len(objects) THEN nearest_hit
    ELSE Bind(Sphere_hit(objects[k].surface, r, [start |-> t_min, end |-> nearest_t]),
              LAMBDA hit :
            IF hit.some
            THEN Bind(nearest_t_after(nearest_t, hit.val), LAMBDA nt :
                 Bind(Some([hit |-> hit.val, material |-> objects[k].material]), LAMBDA nh :
                    traverse_from(objects, k + 1, r, t_min, nt, nh)))
            ELSE traverse_from(objects, k + 1, r, t_min, nearest_t, nearest_hit))
World_traverse(objects, r, t_min) == traverse_from(objects, 1, r, t_min, INFINITY, None)

\* ------------------------------------------------- exact fractions <<n, d>>
\* Refractive indices, cosines and reflectances are fractions n/d, d > 0.
Frac(n, d) == <<n, d>>
FOne == Frac(1, 1)
FAdd(a, b) == Frac(a[1] * b[2] + b[1] * a[2], a[2] * b[2])
FSub(a, b) == Frac(a[1] * b[2] - b[1] * a[2], a[2] * b[2])
FMul(a, b) == Frac(a[1] * b[1], a[2] * b[2])
\* a / b for b # 0, keeping the denominator positive
FDiv(a, b) == IF b[1] < 0 THEN Frac(0 - a[1] * b[2], 0 - a[2] * b[1])
              ELSE Frac(a[1] * b[2], a[2] * b[1])
FEq(a, b) == a[1] * b[2] = b[1] * a[2]
FLess(a, b) == a[1] * b[2] < b[1] * a[2]
\* f32::powi
RECURSIVE FPowi(_, _)
FPowi(a, n) == IF n = 0 THEN FOne ELSE Bind(FPowi(a, n - 1), LAMBDA p : FMul(a, p))

\* Dielectric::reflectance of src/world/material.rs (Schlick's approximation)
Dielectric_reflectance(cos_theta, refraction_ratio) ==
    Bind(FPowi(FDiv(FSub(FOne, refraction_ratio), FAdd(FOne, refraction_ratio)), 2),
         LAMBDA r0 : FAdd(r0, FMul(FSub(FOne, r0), FPowi(FSub(FOne, cos_theta), 5))))

\* Dielectric::reflectance of src/main.rs, a method of the material
main_Dielectric_reflectance(refraction, cos_theta) ==
    Bind(FPowi(FDiv(FSub(FOne, refraction), FAdd(FOne, refraction)), 2),
         LAMBDA r0 : FMul(FMul(r0, FSub(FOne, r0)), FPowi(FSub(FOne, cos_theta), 5)))

\* the refraction ratio chosen by Dielectric::scatter
refraction_ratio_of(refraction, front_facing) ==
    IF front_facing THEN FDiv(FOne, refraction) ELSE refraction

\* --------------------------------------------------------------- the scene
\* The world built in main: ground, centre, left (glass), right (metal).
MainWorld ==
    << [kind |-> "lambertian", albedo |-> Vec3(800, 800, 0)],
       [kind |-> "lambertian", albedo |-> Vec3(100, 200, 500)],
       [kind |-> "dielectric", refraction |-> Frac(3, 2)],
       [kind |-> "metal", albedo |-> Vec3(800, 600, 200), fuzz |-> 1] >>

\* Geometry is abstracted: a ray is the class [obj, up], obj the index of
\* the object World::traverse finds nearest along it (0: none) and up the
\* sign of its direction's y.  The classes of scattered rays are read off
\* the scattered direction (in sixteenths), so they depend on the generator
\* exactly as far as the direction does.
Sign(x) == IF x > 0 THEN 1 ELSE IF x < 0 THEN -1 ELSE 0
RayOf(world, dir) == [obj |-> (dir[1] + dir[3]) % (Len(world) + 1), up |-> Sign(dir[2])]
HitNormal == Vec3(0, 16, 0)
HitReflected == Vec3(8, 8, 8)
HitCos(r) == IF r.up = 0 THEN Frac(1, 2) ELSE FOne
HitFrontFacing(r) == r.up <= 0

\* World::traverse on a ray class: the material of the nearest hit, or None
traverse_ray(world, r) == IF r.obj = 0 THEN None ELSE Some(world[r.obj])

\* Scatter::scatter for the three materials: Some((attenuation, ray)) or None,
\* with the generator state after the draws
Lambertian_scatter(world, m, s, r) ==
    Bind(random_in_sphere(s), LAMBDA v :
    Bind(VAdd(HitNormal, v.vec), LAMBDA d :
        [some |-> TRUE, att |-> m.albedo,
         ray |-> RayOf(world, IF Dot(d, d) = 0 THEN HitNormal ELSE d), rng |-> v.rng]))

Metal_scatter(world, m, s, r) ==
    Bind(random_in_sphere(s), LAMBDA v :
    Bind(VAdd(HitReflected, [k \in 1..3 |-> m.fuzz * v.vec[k]]), LAMBDA scattered :
        IF Dot(scattered, HitNormal) > 0
        THEN [some |-> TRUE, att |-> m.albedo, ray |-> RayOf(world, scattered), rng |-> v.rng]
        ELSE [some |-> FALSE, rng |-> v.rng]))

\* refraction_ratio * sin_theta > 1, squared to stay exact
total_internal_reflection(ratio, cos_theta) ==
    FLess(FOne, FMul(FPowi(ratio, 2), FSub(FOne, FPowi(cos_theta, 2))))
\* `a || rng.gen::<f32>() < reflectance` draws only when a is false
Dielectric_scatter(world, m, s, r) ==
    Bind(total_internal_reflection(refraction_ratio_of(m.refraction, HitFrontFacing(r)),
                                   HitCos(r)), LAMBDA tir :
    Bind(IF tir THEN [val |-> 0, rng |-> s] ELSE Gen(s), LAMBDA g :
    Bind(tir \/ FLess(Frac(g.val, 16), main_Dielectric_reflectance(m.refraction, HitCos(r))),
         LAMBDA reflects :
        [some |-> TRUE, att |-> ONE,
         ray |-> RayOf(world, IF reflects THEN Vec3(0, 16, 0) ELSE Vec3(1, -16, 0)),
         rng |-> g.rng])))

scatter(world, m, s, r) ==
    CASE m.kind = "lambertian" -> Lambertian_scatter(world, m, s, r)
      [] m.kind = "metal" -> Metal_scatter(world, m, s, r)
      [] m.kind = "dielectric" -> Dielectric_scatter(world, m, s, r)

\* the background gradient: ONE.lerp((0.5, 0.7, 1.0), 0.5 * (y + 1))
background(r) ==
    [k \in 1..3 |-> 1000 + ((Vec3(500, 700, 1000)[k] - 1000) * (500 * (r.up + 1))) \div 1000]

\* a ray_color that queries the world before it looks at depth
ray_color_query_first(r, world, s, depth) ==
    IF traverse_ray(world, r).some
    THEN [color |-> ZERO, rng |-> s, queries |-> 1]
    ELSE [color |-> background(r), rng |-> s, queries |-> 1]

\* fn ray_color: the colour, the generator state after it, and the number of
\* World::traverse queries it made
RECURSIVE ray_color(_, _, _, _)
\* a ray_color whose depth test comes one bounce late
ray_color_one_more(r, world, s, depth) ==
    Bind(traverse_ray(world, r), LAMBDA h :
        IF h.some
        THEN Bind(scatter(world, h.val, s, r), LAMBDA sc :
            IF sc.some /\ depth > 0
            THEN Bind(ray_color(sc.ray, world, sc.rng, depth - 1), LAMBDA rec :
                    [color |-> VMul(sc.att, rec.color), rng |-> rec.rng,
                     queries |-> rec.queries + 1])
            ELSE [color |-> ZERO, rng |-> sc.rng, queries |-> 1])
        ELSE [color |-> background(r), rng |-> s, queries |-> 1])
ray_color(r, world, s, depth) ==
    IF depth = 0 THEN [color |-> ZERO, rng |-> s, queries |-> 0]
    ELSE Bind(traverse_ray(world, r), LAMBDA h :
        IF h.some
        THEN Bind(scatter(world, h.val, s, r), LAMBDA sc :
            IF sc.some
            THEN Bind(ray_color(sc.ray, world, sc.rng, depth - 1), LAMBDA rec :
                    [color |-> VMul(sc.att, rec.color), rng |-> rec.rng,
                     queries |-> rec.queries + 1])
            ELSE [color |-> ZERO, rng |-> sc.rng, queries |-> 1])
        ELSE [color |-> background(r), rng |-> s, queries |-> 1])

\* ------------------------------------------------------------ the renderer
\* Camera::get_ray on the normalized coordinate uv = [x, y] (fractions whose
\* denominator is 0 when the image is one pixel wide or high): the class of
\* the primary ray
Camera_get_ray(world, uv) ==
    [obj |-> (uv.x[1] + uv.y[1]) % (Len(world) + 1), up |-> Sign(2 * uv.y[1] - uv.y[2])]

\* pixel coordinates of a pixel index (main.rs:397-400)
pixel_xy(pixel, w, h) == [x |-> pixel % w, y |-> h - 1 - (pixel \div w)]

\* uv = (xy + random) / (wh - 1), random in sixteenths (main.rs:406-408)
pixel_uv(xy, random, w, h) ==
    [x |-> Frac(16 * xy.x + random[1], 16 * (w - 1)),
     y |-> Frac(16 * xy.y + random[2], 16 * (h - 1))]

\* the sample loop of one pixel (main.rs:403-410): the colour sum and the
\* generator state after n samples
RECURSIVE sample_loop(_, _, _, _, _, _, _)
sample_loop(world, xy, w, h, s, n, color) ==
    IF n = 0 THEN [color |-> color, rng |-> s]
    ELSE Bind(Gen2(s), LAMBDA random :
         Bind(pixel_uv(xy, random.vec, w, h), LAMBDA uv :
         Bind(ray_color(Camera_get_ray(world, uv), world, random.rng, MAX_DEPTH), LAMBDA rc :
            sample_loop(world, xy, w, h, rc.rng, n - 1, VAdd(color, rc.color)))))

\* the body of the pixel loop up to the write (main.rs:396-414): the three
\* bytes of the pixel and the generator state after its samples
render_pixel(world, pixel, w, h, s, n) ==
    Bind(sample_loop(world, pixel_xy(pixel, w, h), w, h, s, n, ZERO), LAMBDA acc :
        [out |-> OutputColor_from(VDivN(acc.color, n)), rng |-> acc.rng])

\* render_pixel for the world of main, tabulated over the image sizes, the
\* pixels and the generator states it can be called with
RenderTable ==
    [wd \in 1..MaxWidth, ht \in 1..MaxHeight |->
        [pixel \in 0..(wd * ht - 1), s \in RngStates |->
            render_pixel(MainWorld, pixel, wd, ht, s, SamplesPerPixel)] @@ <<>>] @@ <<>>

\* chunks whose ranges start one pixel early
chunks_mut_overlapping(len, size) ==
    [k \in 1..((len + size - 1) \div size) |->
        [i |-> k - 1, start |-> Max(0, (k - 1) * size - COLOR_CHANNELS),
         len |-> Min(size, len - (k - 1) * size)]]

\* pixel_data.chunks_mut(size).enumerate().collect(): descriptors
\* (index, byte range) of a buffer of len bytes
chunks_mut(len, size) ==
    [k \in 1..((len + size - 1) \div size) |->
        [i |-> k - 1, start |-> (k - 1) * size, len |-> Min(size, len - (k - 1) * size)]]

\* a pop that returns the last item and leaves it in the vector
vec_peek(v) == IF v = <<>> THEN [vec |-> v, item |-> None]
               ELSE [vec |-> v, item |-> Some(v[Len(v)])]
\* Vec::pop
vec_pop(v) == IF v = <<>> THEN [vec |-> v, item |-> None]
              ELSE [vec |-> SubSeq(v, 1, Len(v) - 1), item |-> Some(v[Len(v)])]

\* a seed that differs from worker to worker
worker_seed_per_thread(w) == seed_from_u64(SEED + w)
\* the seed of a worker's generator (main.rs:387)
worker_seed(w) == seed_from_u64(SEED)

BufLen == width * height * COLOR_CHANNELS
Bytes == 0..(BufLen - 1)

Init ==
    /\ width \in 1..MaxWidth
    /\ height \in 1..MaxHeight
    /\ chunk_pixels \in 1..MaxChunk
    /\ nthreads \in 1..MaxThreads
    /\ pixel_data = [b \in Bytes |-> 0]
    /\ chunks = chunks_mut(BufLen, chunk_pixels * COLOR_CHANNELS)
    /\ Len(chunks) <= MaxTiles
    /\ lock = 0
    /\ pc = [w \in Workers |-> "lock"]
    /\ tmp = [w \in Workers |-> None]
    /\ px = [w \in Workers |-> 0]
    /\ rng = [w \in Workers |-> worker_seed(w)]
    /\ writers = [b \in Bytes |-> {}]
    /\ nwrites = [b \in Bytes |-> 0]
    /\ assign = [w \in Workers |-> <<>>]
    /\ call = [fn |-> "main"]
    /\ ret = None

config == <<width, height, chunk_pixels, nthreads>>

\* chunks.lock(): acquire the mutex
Lock(w) ==
    /\ pc[w] = "lock"
    /\ lock = 0
    /\ lock' = w
    /\ pc' = [pc EXCEPT ![w] = "pop"]
    /\ UNCHANGED <<config, call, ret, chunks, pixel_data, tmp, px, rng, writers, nwrites, assign>>

\* .pop() under the guard; the result goes to tmp
Pop(w) ==
    /\ pc[w] = "pop"
    /\ LET p == vec_pop(chunks)
       IN  /\ chunks' = p.vec
           /\ tmp' = [tmp EXCEPT ![w] = p.item]
           /\ assign' = IF p.item.some
                        THEN [assign EXCEPT ![w] = Append(@, p.item.val.i)]
                        ELSE assign
    /\ pc' = [pc EXCEPT ![w] = "unlock"]
    /\ UNCHANGED <<config, call, ret, lock, pixel_data, px, rng, writers, nwrites>>

\* where the guard is dropped: at the end of the let statement, before the
\* while-let tests tmp
guard_kept(w, holder) == holder
guard_dropped(w, holder) == IF holder = w THEN 0 ELSE holder

\* the while-let test: the loop goes on iff the pop returned Some
while_let_never(t) == FALSE
while_let_some(t) == t.some

\* end of `let tmp = chunks.lock().pop();`, then the while-let test
Unlock(w) ==
    /\ pc[w] = "unlock"
    /\ lock' = guard_dropped(w, lock)
    /\ pc' = [pc EXCEPT ![w] = IF while_let_some(tmp[w]) THEN "render" ELSE "done"]
    /\ px' = [px EXCEPT ![w] = 0]
    /\ UNCHANGED <<config, call, ret, chunks, pixel_data, tmp, rng, writers, nwrites, assign>>

\* the byte indices of pixel_data that pixel i of a chunk occupies
pixel_bytes(chunk, i) == {chunk.start + i * COLOR_CHANNELS + k : k \in 0..(COLOR_CHANNELS - 1)}

\* the bound of the pixel loop: chunk.len() / COLOR_CHANNELS
chunk_pixel_count_short(chunk) == chunk.len \div COLOR_CHANNELS - 1
chunk_pixel_count(chunk) == chunk.len \div COLOR_CHANNELS

\* chunk[i * COLOR_CHANNELS..][..COLOR_CHANNELS].copy_from_slice(out), and
\* the step of the pixel loop
WritePixel(w, chunk, i, r) ==
    /\ rng' = [rng EXCEPT ![w] = r.rng]
    /\ pixel_data' = [b \in Bytes |->
          IF b \in pixel_bytes(chunk, i)
          THEN r.out[b - (chunk.start + i * COLOR_CHANNELS) + 1]
          ELSE pixel_data[b]]
    /\ writers' = [b \in Bytes |->
          IF b \in pixel_bytes(chunk, i) THEN writers[b] \cup {w} ELSE writers[b]]
    /\ nwrites' = [b \in Bytes |->
          IF b \in pixel_bytes(chunk, i) THEN nwrites[b] + 1 ELSE nwrites[b]]
    /\ IF i + 1 < chunk_pixel_count(chunk)
       THEN /\ px' = [px EXCEPT ![w] = i + 1]
            /\ pc' = pc
       ELSE /\ px' = px
            /\ pc' = [pc EXCEPT ![w] = "lock"]

\* one iteration of the pixel loop (main.rs:394-416)
RenderPixel(w) ==
    /\ pc[w] = "render"
    /\ \E r \in {RenderTable[width, height][chunk_pixels * tmp[w].val.i + px[w], rng[w]]} :
          WritePixel(w, tmp[w].val, px[w], r)
    /\ UNCHANGED <<config, call, ret, chunks, lock, tmp, assign>>

Next ==
    \/ \E w \in Workers : Lock(w)
    \/ \E w \in Workers : Pop(w)
    \/ \E w \in Workers : Unlock(w)
    \/ \E w \in Workers : RenderPixel(w)

Spec == Init /\ [][Next]_vars

\* fairness: every spawned thread keeps running (OS threads, no thread is
\* suspended forever); the mutex hands the lock to a waiter once it stays free
WorkerStep(w) ==
    /\ w \in Workers
    /\ (Lock(w) \/ Pop(w) \/ Unlock(w) \/ RenderPixel(w))
FairSpec == Spec /\ \A w \in 1..(MaxThreads + 1) : WF_vars(WorkerStep(w))

\* ------------------------------------------- calls of the pure functions
\* A second specification applies one function of the program to one input
\* drawn from a bounded set; the renderer's variables stay at rest.
TraverseRay == Ray_new(ZERO, Vec3(0, 0, -1))
Spheres ==
    {[center |-> Vec3(x, 0, 0 - z), radius |-> rad] : x \in {0, 2}, z \in 0..MaxCoord, rad \in 1..2}
Objects ==
    {[surface |-> sp, material |-> IF sp.radius = 1 THEN "lambertian" ELSE "metal"] : sp \in Spheres}
Worlds == UNION {[1..n -> Objects] : n \in 0..MaxObjects}
Vectors == {Vec3(x, y, z) : x, y, z \in (0 - MaxComp)..MaxComp}
RayClasses == [obj : 0..Len(MainWorld), up : -1..1]
Colors ==
    UNION {{Vec3(v, a, b), Vec3(a, v, b), Vec3(a, b, v)} : v \in 0..MaxChannel, a, b \in {0, 1000}}

TraverseCalls ==
    [fn : {"traverse"}, world : Worlds, ray : {TraverseRay}, t_min : 0..1]
RayColorCalls ==
    [fn : {"ray_color"}, ray : RayClasses, rng : RngStates, depth : 0..MaxCallDepth]
HitRecordCalls ==
    [fn : {"HitRecord_new"}, outward_normal : Vectors, direction : Vectors]
QuantizeCalls == [fn : {"OutputColor_from"}, color : Colors]
ReflectanceCalls ==
    [fn : {"reflectance"}, refraction : {Frac(n, 2) : n \in 2..(2 * MaxEta)},
     cos_theta : {Frac(n, 2) : n \in 0..2}, front_facing : BOOLEAN]

\* ranges t_min..t_max around the roots the spheres have along TraverseRay
SphereHitCalls ==
    [fn : {"Sphere_hit"}, sphere : Spheres, ray : {TraverseRay},
     t_range : [start : 0..1, end : 0..(MaxCoord + 3)]]

\* every pixel offset i of every tile k of an image at least two pixels wide
\* and high, with a jitter in sixteenths
TilesOf(w, h, cp) ==
    {chunks_mut(w * h * COLOR_CHANNELS, cp * COLOR_CHANNELS)[n] :
        n \in 1..Len(chunks_mut(w * h * COLOR_CHANNELS, cp * COLOR_CHANNELS))}
PixelCalls ==
    UNION {UNION {[fn : {"pixel_uv"}, w : {w}, h : {h}, chunk_pixels : {cp}, k : {c.i},
                   i : 0..(chunk_pixel_count(c) - 1), random : RngStates \X RngStates]
                    : c \in TilesOf(w, h, cp)}
            : w \in 2..MaxWidth, h \in 2..MaxHeight, cp \in 1..MaxChunk}

PureInit ==
    /\ call \in TraverseCalls \cup RayColorCalls \cup HitRecordCalls
                \cup QuantizeCalls \cup ReflectanceCalls \cup SphereHitCalls
                \cup PixelCalls
    /\ ret = None
    /\ width = 1 /\ height = 1 /\ chunk_pixels = 1 /\ nthreads = 1
    /\ pixel_data = [b \in Bytes |-> 0]
    /\ chunks = <<>>
    /\ lock = 0
    /\ pc = [w \in Workers |-> "done"]
    /\ tmp = [w \in Workers |-> None]
    /\ px = [w \in Workers |-> 0]
    /\ rng = [w \in Workers |-> worker_seed(w)]
    /\ writers = [b \in Bytes |-> {}]
    /\ nwrites = [b \in Bytes |-> 0]
    /\ assign = [w \in Workers |-> <<>>]

Returns(v) ==
    /\ ret = None
    /\ ret' = Some(v)
    /\ UNCHANGED <<config, call, chunks, lock, pixel_data, pc, tmp, px, rng,
                   writers, nwrites, assign>>

DoTraverse ==
    /\ call.fn = "traverse"
    /\ Returns(World_traverse(call.world, call.ray, call.t_min))
DoRayColor ==
    /\ call.fn = "ray_color"
    /\ Returns(ray_color(call.ray, MainWorld, call.rng, call.depth))
DoHitRecord ==
    /\ call.fn = "HitRecord_new"
    /\ Returns(HitRecord_new(ZERO, call.outward_normal, 1,
                             Ray_new(ZERO, call.direction)))
DoQuantize ==
    /\ call.fn = "OutputColor_from"
    /\ Returns(OutputColor_from(call.color))
\* both versions of Dielectric::reflectance, called as Dielectric::scatter
\* calls them
DoReflectance ==
    /\ call.fn = "reflectance"
    /\ Returns([material_rs |->
                   Dielectric_reflectance(call.cos_theta,
                       refraction_ratio_of(call.refraction, call.front_facing)),
                main_rs |-> main_Dielectric_reflectance(call.refraction, call.cos_theta)])

DoSphereHit ==
    /\ call.fn = "Sphere_hit"
    /\ Returns(Sphere_hit(call.sphere, call.ray, call.t_range))

\* the pixel coordinates and uv of one sample (main.rs:393-407)
DoPixel ==
    /\ call.fn = "pixel_uv"
    /\ \E xy \in {pixel_xy(call.chunk_pixels * call.k + call.i, call.w, call.h)} :
          Returns([xy |-> xy, uv |-> pixel_uv(xy, call.random, call.w, call.h)])

PureNext ==
    \/ DoPixel
    \/ DoSphereHit
    \/ DoTraverse
    \/ DoRayColor
    \/ DoHitRecord
    \/ DoQuantize
    \/ DoReflectance

PureSpec == PureInit /\ [][PureNext]_vars

\* ------------------------------------------------------------------ claims
AllDone == \A w \in Workers : pc[w] = "done"
AllChunks == chunks_mut(BufLen, chunk_pixels * COLOR_CHANNELS)
ChunkRange(c) == c.start..(c.start + c.len - 1)
\* the tiles a worker has popped, as a set, and the workers that popped tile i
Popped(w) == {assign[w][k] : k \in 1..Len(assign[w])}
PoppedBy(i) == {w \in Workers : i \in Popped(w)}
TileCount(w, i) == Cardinality({k \in 1..Len(assign[w]) : assign[w][k] = i})
ShortFinalTile == BufLen % (chunk_pixels * COLOR_CHANNELS) # 0

\* C1: the tile descriptors cover pairwise disjoint byte ranges inside the
\* buffer, the tiles held by two workers at the same time are disjoint, and no
\* byte of the pixel buffer is ever written by two different workers.
C1_DisjointTiles ==
    /\ \A j, k \in 1..Len(AllChunks) :
          j # k => ChunkRange(AllChunks[j]) \cap ChunkRange(AllChunks[k]) = {}
    /\ \A k \in 1..Len(AllChunks) : ChunkRange(AllChunks[k]) \subseteq Bytes
    /\ \A v, w \in Workers :
          (v # w /\ tmp[v].some /\ tmp[w].some)
             => ChunkRange(tmp[v].val) \cap ChunkRange(tmp[w].val) = {}
    /\ \A b \in Bytes : Cardinality(writers[b]) <= 1
\* witness: two workers have each written bytes of the buffer
C1_Witness ==
    /\ nthreads >= 2
    /\ \E b \in Bytes : writers[b] = {1}
    /\ \E b \in Bytes : writers[b] = {2}

\* C2: every tile is popped at most once while the render runs; once all
\* workers have exited every tile has been popped exactly once and every byte
\* of the width*height*3 buffer has been written exactly once.
C2_ExactlyOnce ==
    /\ \A i \in 0..(Len(AllChunks) - 1) :
          /\ Cardinality(PoppedBy(i)) <= 1
          /\ \A w \in Workers : TileCount(w, i) <= 1
    /\ \A b \in Bytes : nwrites[b] <= 1
    /\ AllDone =>
          /\ \A i \in 0..(Len(AllChunks) - 1) : Cardinality(PoppedBy(i)) = 1
          /\ \A b \in Bytes : nwrites[b] = 1
\* witness: a finished render of an image whose final tile is short, in which
\* both workers rendered tiles
C2_Witness ==
    /\ AllDone
    /\ ShortFinalTile
    /\ nthreads >= 2
    /\ assign[1] # <<>>
    /\ assign[2] # <<>>

\* C3: under fair scheduling every worker eventually exits; a worker exits
\* only after a pop that found the queue empty, so once all have exited the
\* queue is empty and the lock is free.
C3_Terminates ==
    /\ <>AllDone
    /\ [](\A w \in Workers : pc[w] = "done" => (~tmp[w].some /\ chunks = <<>>))
    /\ [](AllDone => (chunks = <<>> /\ lock = 0))
\* witness: all workers have exited after both rendered tiles
C3_Witness ==
    /\ AllDone
    /\ nthreads >= 2
    /\ Len(assign[1]) >= 1
    /\ Len(assign[2]) >= 2

\* C10: at most one worker is between lock() and the drop of the guard, the
\* lock variable names it, and a worker that renders (or has exited) does not
\* hold the lock.
LockHolders == {w \in Workers : pc[w] \in {"pop", "unlock"}}
C10_LockOnlyForPop ==
    /\ Cardinality(LockHolders) <= 1
    /\ \A w \in Workers : (lock = w) <=> (w \in LockHolders)
    /\ \A w \in Workers : pc[w] \in {"render", "done", "lock"} => lock # w
\* witness: one worker renders a tile while another holds the lock
C10_Witness ==
    \E v, w \in Workers : pc[v] = "render" /\ nwrites[tmp[v].val.start] = 1 /\ lock = w

\* ---- replay of a finished render from the tiles each worker popped
ChunkOf(i) == AllChunks[i + 1]
RECURSIVE replay_chunk(_, _, _, _)
replay_chunk(data, chunk, i, s) ==
    IF i >= chunk.len \div COLOR_CHANNELS THEN [data |-> data, rng |-> s]
    ELSE Bind(RenderTable[width, height][chunk_pixels * chunk.i + i, s], LAMBDA r :
         Bind([b \in Bytes |-> IF b \in pixel_bytes(chunk, i)
                               THEN r.out[b - (chunk.start + i * COLOR_CHANNELS) + 1]
                               ELSE data[b]], LAMBDA d :
            replay_chunk(d, chunk, i + 1, r.rng)))
RECURSIVE replay_tiles(_, _, _)
replay_tiles(data, tiles, s) ==
    IF tiles = <<>> THEN data
    ELSE Bind(replay_chunk(data, ChunkOf(Head(tiles)), 0, s), LAMBDA d :
            replay_tiles(d.data, Tail(tiles), d.rng))
RECURSIVE replay_workers(_, _, _)
replay_workers(data, asg, w) ==
    IF w > nthreads THEN data
    ELSE Bind(replay_tiles(data, asg[w], seed_from_u64(SEED)), LAMBDA d :
            replay_workers(d, asg, w + 1))
ExpectedOutput(asg) == replay_workers([b \in Bytes |-> 0], asg, 1)
\* the run in which worker 1 pops every tile
SequentialAssign ==
    [w \in Workers |-> IF w = 1 THEN [k \in 1..Len(AllChunks) |-> Len(AllChunks) - k]
                       ELSE <<>>]

\* C4 as stated: with the fixed seed and a fixed worker count the finished
\* buffer is the same for every interleaving, i.e. equal to the buffer of the
\* run in which worker 1 pops every tile.
C4_SameForEveryInterleaving ==
    AllDone => pixel_data = ExpectedOutput(SequentialAssign)
\* C4 amended: the finished buffer is a function of the image, the tile size
\* and the order in which each worker popped its tiles: every pixel is
\* rendered from the generator state its worker reached, from seed 123,
\* over the tiles that worker popped before.
C4_SameForSameAssignment ==
    /\ AllDone => pixel_data = ExpectedOutput(assign)
    /\ (AllDone /\ assign = SequentialAssign) => pixel_data = ExpectedOutput(SequentialAssign)
    /\ (AllDone /\ nthreads = 1) => assign = SequentialAssign
\* witness: a finished render in which two workers shared the tiles and the
\* buffer differs from the one of the run in which worker 1 pops every tile
C4_Witness ==
    /\ AllDone
    /\ nthreads >= 2
    /\ assign[1] # <<>>
    /\ assign[2] # <<>>
    /\ pixel_data = ExpectedOutput(assign)
    /\ pixel_data # ExpectedOutput(SequentialAssign)

\* ---- World::traverse
SoloHit(o) == Sphere_hit(o.surface, call.ray, [start |-> call.t_min, end |-> INFINITY])
HitIndices(world) == {k \in 1..Len(world) : SoloHit(world[k]).some}
Reorderings(world) ==
    {[k \in 1..Len(world) |-> world[p[k]]] : p \in Permutations(1..Len(world))}

\* C5: World::traverse returns nothing iff no object is hit at t >= t_min;
\* otherwise it returns a hit of one of the objects, with that object's
\* material, whose t is the smallest among the objects' hits with t >= t_min;
\* whether it returns a hit, and the t of that hit, are the same for every
\* order of insertion.  (Of objects hit at exactly the same smallest t the
\* last inserted one is returned.)
C5_NearestHit ==
    (call.fn = "traverse" /\ ret.some) =>
        LET res == ret.val
            world == call.world
        IN  /\ res.some <=> HitIndices(world) # {}
            /\ res.some =>
                 /\ res.val.hit.t >= call.t_min
                 /\ \A k \in HitIndices(world) : res.val.hit.t <= SoloHit(world[k]).val.t
                 /\ \E k \in HitIndices(world) :
                       /\ SoloHit(world[k]).val = res.val.hit
                       /\ world[k].material = res.val.material
                       /\ \A j \in HitIndices(world) :
                             SoloHit(world[j]).val.t = res.val.hit.t => j <= k
            /\ \A other \in Reorderings(world) :
                 LET q == World_traverse(other, call.ray, call.t_min)
                 IN  /\ q.some = res.some
                     /\ q.some => q.val.hit.t = res.val.hit.t
\* witness: two objects are hit at different distances, the nearer one was
\* inserted first, and it is the one returned
C5_Witness ==
    /\ call.fn = "traverse"
    /\ ret.some
    /\ Len(call.world) = 2
    /\ HitIndices(call.world) = {1, 2}
    /\ SoloHit(call.world[1]).val.t < SoloHit(call.world[2]).val.t
    /\ ret.val.some
    /\ ret.val.val.hit = SoloHit(call.world[1]).val

\* C6: ray_color called with depth 0 returns black, makes no World::traverse
\* query and draws nothing from the generator (no material scatters).
C6_DepthZeroBlack ==
    (call.fn = "ray_color" /\ ret.some /\ call.depth = 0) =>
        /\ ret.val.color = ZERO
        /\ ret.val.queries = 0
        /\ ret.val.rng = call.rng
\* witness: depth 0 on a ray that would hit an object
C6_Witness ==
    /\ call.fn = "ray_color"
    /\ call.depth = 0
    /\ call.ray.obj # 0
    /\ ret.some
    /\ ret.val.queries = 0

\* C7 as stated: front_facing is true iff dot(outward_normal, direction) <= 0,
\* and the stored normal has a dot product <= 0 with the direction.
C7_FrontFacingIffDotLeZero ==
    (call.fn = "HitRecord_new" /\ ret.some) =>
        /\ ret.val.front_facing <=> Dot(call.outward_normal, call.direction) <= 0
        /\ Dot(ret.val.normal, call.direction) <= 0
\* C7 amended: front_facing is true iff dot(outward_normal, direction) < 0;
\* the stored normal is the outward normal if front_facing and its negation
\* otherwise, and always has a dot product <= 0 with the direction; when the
\* dot product is exactly 0, front_facing is false and the normal is negated.
C7_FrontFacingIffDotNegative ==
    (call.fn = "HitRecord_new" /\ ret.some) =>
        /\ ret.val.front_facing <=> Dot(call.outward_normal, call.direction) < 0
        /\ ret.val.normal = IF ret.val.front_facing THEN call.outward_normal
                            ELSE Neg(call.outward_normal)
        /\ Dot(ret.val.normal, call.direction) <= 0
        /\ Dot(call.outward_normal, call.direction) = 0 =>
              (~ret.val.front_facing /\ ret.val.normal = Neg(call.outward_normal))
\* witness: a grazing hit, the direction perpendicular to the outward normal
C7_Witness ==
    /\ call.fn = "HitRecord_new"
    /\ ret.some
    /\ call.outward_normal # ZERO
    /\ call.direction # ZERO
    /\ Dot(call.outward_normal, call.direction) = 0
    /\ ~ret.val.front_facing

\* ---- quantization
Brighter(c, k) == [c EXCEPT ![k] = @ + 1]

\* C8: OutputColor::from maps (1,1,1) to (255,255,255) and (0,0,0) to
\* (0,0,0), every byte it returns is in 0..255, and raising one channel of
\* the input never lowers that channel's byte nor changes the other bytes.
C8_Quantize ==
    (call.fn = "OutputColor_from" /\ ret.some) =>
        /\ \A k \in 1..3 : ret.val[k] \in 0..255
        /\ call.color = ONE => ret.val = Vec3(255, 255, 255)
        /\ call.color = ZERO => ret.val = Vec3(0, 0, 0)
        /\ \A k \in 1..3 :
              LET up == OutputColor_from(Brighter(call.color, k))
              IN  /\ up[k] >= ret.val[k]
                  /\ \A j \in 1..3 : j # k => up[j] = ret.val[j]
\* witness: a channel above 1 is clamped to 255 next to a channel at 0
C8_Witness ==
    /\ call.fn = "OutputColor_from"
    /\ ret.some
    /\ call.color[1] > 1000
    /\ call.color[2] = 0
    /\ ret.val[1] = 255
    /\ ret.val[2] = 0

\* ---- Schlick reflectance
R0(refraction) == FPowi(FDiv(FSub(FOne, refraction), FAdd(FOne, refraction)), 2)

\* C9 as stated, of Dielectric::reflectance in src/main.rs: at cos_theta = 1
\* the reflectance equals r0 = ((1 - eta) / (1 + eta))^2, front- and
\* back-facing, and at cos_theta = 0 it equals 1.
C9_ReflectanceEndpoints ==
    (call.fn = "reflectance" /\ ret.some) =>
        /\ FEq(call.cos_theta, FOne) => FEq(ret.val.main_rs, R0(call.refraction))
        /\ FEq(call.cos_theta, Frac(0, 1)) => FEq(ret.val.main_rs, FOne)

\* ---- Sphere::hit
\* the parameters t at which the ray meets the sphere's surface
SurfaceRoots(sp, r) ==
    {x \in (0 - (MaxCoord + 3))..(MaxCoord + 3) :
        Dot(VSub(Ray_at(r, x), sp.center), VSub(Ray_at(r, x), sp.center))
            = sp.radius * sp.radius}
SetMin(S) == CHOOSE x \in S : \A y \in S : x <= y
SetMax(S) == CHOOSE x \in S : \A y \in S : y <= x
InHalfOpen(x, t_range) == t_range.start <= x /\ x < t_range.end

\* C11 as stated: for a range with t_min < t_max, Sphere::hit returns a hit
\* only with t_min <= t < t_max: the smaller root if it lies in the half-open
\* range, otherwise the larger root if it does, otherwise no hit; a root
\* equal to t_max is not reported.
C11_HalfOpenRange ==
    (call.fn = "Sphere_hit" /\ ret.some /\ call.t_range.start < call.t_range.end) =>
        LET roots == SurfaceRoots(call.sphere, call.ray)
            inside == {x \in roots : InHalfOpen(x, call.t_range)}
        IN  /\ ret.val.some <=> inside # {}
            /\ ret.val.some =>
                 /\ InHalfOpen(ret.val.val.t, call.t_range)
                 /\ ret.val.val.t = SetMin(inside)

\* ---- ray_color
\* the ray hits an object whose material absorbs it
Absorbed(r, s) ==
    /\ traverse_ray(MainWorld, r).some
    /\ ~scatter(MainWorld, traverse_ray(MainWorld, r).val, s, r).some

\* C12: a ray_color call with depth d returns (DoRayColor is enabled for
\* every call) after at most d World::traverse queries; it makes no query
\* iff d = 0, and a call with d > 0 whose ray misses every object makes
\* exactly one query and returns the background, and one whose first hit
\* is absorbed makes exactly one query and returns black.
C12_AtMostDepthQueries ==
    /\ (call.fn = "ray_color" /\ ret = None) => ENABLED DoRayColor
    /\ (call.fn = "ray_color" /\ ret.some) =>
          /\ ret.val.queries \in 0..call.depth
          /\ ret.val.queries = 0 <=> call.depth = 0
          /\ (call.depth > 0 /\ ~traverse_ray(MainWorld, call.ray).some) =>
                (ret.val.queries = 1 /\ ret.val.color = background(call.ray))
          /\ (call.depth > 0 /\ Absorbed(call.ray, call.rng)) =>
                (ret.val.queries = 1 /\ ret.val.color = ZERO)
\* witnesses: a call that used all of its depth on a chain of scatters
C12_Witness ==
    /\ call.fn = "ray_color"
    /\ ret.some
    /\ call.depth >= 3
    /\ ret.val.queries = call.depth

\* ---- the work queue
\* C13: every step leaves the queue unchanged or removes exactly its last
\* descriptor (nothing is pushed); a pop on a non-empty queue removes the
\* descriptor it returns and a pop on the empty queue returns None; a worker
\* that got None exits, and a worker that has exited never runs again.
C13_DrainedNeverRefilled ==
    [][ /\ \/ chunks' = chunks
           \/ chunks # <<>> /\ chunks' = SubSeq(chunks, 1, Len(chunks) - 1)
        /\ \A w \in Workers :
              (pc[w] = "pop" /\ pc'[w] = "unlock") =>
                 IF chunks = <<>>
                 THEN tmp'[w] = None /\ chunks' = chunks
                 ELSE tmp'[w] = Some(chunks[Len(chunks)])
                      /\ Len(chunks') = Len(chunks) - 1
        /\ \A w \in Workers :
              (pc[w] = "unlock" /\ ~tmp[w].some /\ pc'[w] # pc[w]) => pc'[w] = "done"
        /\ \A w \in Workers :
              pc[w] = "done" => (pc'[w] = "done" /\ assign'[w] = assign[w]) ]_vars
\* witness: the queue is drained, one worker has exited on the empty queue
\* and another is still rendering the tile it popped
C13_Witness ==
    /\ chunks = <<>>
    /\ \E w \in Workers : pc[w] = "done" /\ assign[w] # <<>>
    /\ \E v \in Workers : pc[v] = "render"

\* ---- pixel coordinates
\* C14 as stated: for every tile k and pixel offset i the coordinate of pixel
\* CHUNK_PIXELS*k + i satisfies 0 <= x < width and 0 <= y < height, and for
\* every jitter in [0,1)^2 the coordinate uv = (xy + jitter)/(wh - 1) lies
\* in [0,1]^2.
C14_UvInUnitSquare ==
    (call.fn = "pixel_uv" /\ ret.some) =>
        /\ ret.val.xy.x \in 0..(call.w - 1)
        /\ ret.val.xy.y \in 0..(call.h - 1)
        /\ ~FLess(ret.val.uv.x, Frac(0, 1)) /\ ~FLess(FOne, ret.val.uv.x)
        /\ ~FLess(ret.val.uv.y, Frac(0, 1)) /\ ~FLess(FOne, ret.val.uv.y)

====
